---- MODULE Spec2Model ----
(***************************************************************************)
(* Model of the multi-agent report generator: the ReportCoordinator of     *)
(* coordinator.py driving the outline, content, polish and chart agents    *)
(* and the ReportFormatter.                                                *)
(*                                                                         *)
(* Python dicts are insertion-ordered maps; they are modelled as sequences *)
(* of [k, v] records with unique keys.  Objects the coordinator shares by  *)
(* reference (workflow_status, generation_log) live in status_objs and     *)
(* log_objs; the coordinator's attribute is always the last object         *)
(* allocated, and a returned report holds the index of the object it       *)
(* references.  Timestamps and elapsed times are left out of log entries   *)
(* and reports.                                                            *)
(***************************************************************************)
EXTENDS Integers, Sequences, FiniteSets, TLC

(***************************************************************************)
(* Bounds of the model.                                                    *)
(***************************************************************************)
MaxRuns == 2
MaxResets == 1
MaxFormats == 3
MaxStageFormats == 1
MaxCharts == 1
MaxFallbacks == 1
MaxReplyLines == 11
MaxSections == 3
MaxRequests == 2
MaxAnalyzed == 2

Topic == "T"

Formats == {"markdown", "json", "docx", "pdf"}

\* the lists of at most n distinct elements of S
RECURSIVE SeqsUpTo(_, _)
SeqsUpTo(S, n) ==
    IF n = 0 THEN {<<>>}
    ELSE LET shorter == SeqsUpTo(S, n - 1)
             longest == {t \in shorter : Len(t) = n - 1}
         IN  shorter \cup UNION { {Append(t, x) : x \in S \ {t[i] : i \in 1..Len(t)}} :
                                   t \in longest }

FormatLists == SeqsUpTo(Formats, MaxFormats)

StageFormatLists == SeqsUpTo({"markdown", "docx"}, MaxStageFormats)

ReuseFormatLists == { <<"markdown">> }

(***************************************************************************)
(* Python dict: d[k] = v, len(d), list(d.keys()), k in d.                  *)
(***************************************************************************)
DictHas(d, k) == \E i \in 1..Len(d) : d[i].k = k

DictSet(d, k, v) ==
    IF DictHas(d, k)
    THEN [i \in 1..Len(d) |-> IF d[i].k = k THEN [k |-> k, v |-> v] ELSE d[i]]
    ELSE Append(d, [k |-> k, v |-> v])

DictKeys(d) == [i \in 1..Len(d) |-> d[i].k]

DictKeySet(d) == {d[i].k : i \in 1..Len(d)}

EmptyDict == <<>>

(***************************************************************************)
(* ReportCoordinator.__init__ / reset_workflow: the fresh status dict.     *)
(***************************************************************************)
Stages == {"outline_generated", "content_generated", "content_polished",
           "charts_generated", "report_formatted"}

FreshStatus == [s \in Stages |-> FALSE]

VARIABLES
    status_objs,      \* every workflow_status dict allocated so far
    log_objs,         \* every generation_log list allocated so far
    pc,               \* position of the caller in generate_report
    args,             \* arguments of the generate_report call in progress
    outline,          \* local: outline
    sections_content, \* local: sections_content
    charts,           \* local: charts
    content_out,      \* what _generate_content returned in this run
    calls,            \* agent / serializer invocations of this run, in order
    result,           \* the report most recently returned to the caller
    runs,             \* number of generate_report calls begun
    resets,           \* number of reset_workflow calls
    agent_call,       \* an agent method called on its own: arguments, position, result
    llm_failure       \* how every call of the generation service fails ("none": it may not)

vars == <<status_objs, log_objs, pc, args, outline, sections_content, charts,
          content_out, calls, result, runs, resets, agent_call, llm_failure>>

coordinator_vars == <<status_objs, log_objs, pc, args, outline, sections_content, charts,
                      content_out, calls, result, runs, resets, llm_failure>>

NoCall == [op |-> "none"]

NoFailure == [model_type |-> "none", failure |-> "none"]

\* self.workflow_status and self.generation_log: the current objects
workflow_status == status_objs[Len(status_objs)]
generation_log == log_objs[Len(log_objs)]

Entry(msg, n) == [msg |-> msg, n |-> n]

\* self._log(message) applied for each message of msgs, in order
RECURSIVE LogAll(_, _)
LogAll(log, msgs) ==
    IF msgs = <<>> THEN log
    ELSE LogAll(Append(log, Head(msgs)), Tail(msgs))

SetLog(msgs) ==
    log_objs' = [log_objs EXCEPT ![Len(log_objs)] = LogAll(@, msgs)]

SetFlag(flag) ==
    status_objs' = [status_objs EXCEPT ![Len(status_objs)][flag] = TRUE]

Call(stage, outcome) == [stage |-> stage, outcome |-> outcome]

NoArgs == [enable_polish |-> FALSE, enable_charts |-> FALSE, output_formats |-> <<>>]

NoResult ==
    [status |-> "none", error |-> "", sections |-> <<>>, charts |-> <<>>,
     output_files |-> <<>>, workflow_status |-> 0, generation_log |-> 0, run |-> 0]

Init ==
    /\ status_objs = <<FreshStatus>>
    /\ log_objs = << <<>> >>
    /\ pc = "idle"
    /\ args = NoArgs
    /\ outline = <<>>
    /\ sections_content = <<>>
    /\ charts = <<>>
    /\ content_out = <<>>
    /\ calls = <<>>
    /\ result = NoResult
    /\ runs = 0
    /\ resets = 0
    /\ agent_call = NoCall
    /\ llm_failure = NoFailure

(***************************************************************************)
(* OutlineAgent (agents/outline_agent.py).  A reply of the generation      *)
(* service is a sequence of lines already stripped of numbering; "x" is a  *)
(* line of at most 3 characters.                                           *)
(***************************************************************************)
TopicOverview == "T_overview"
ConclusionOutlook == "conclusion_outlook"

IntroMarked == {"intro", TopicOverview}
ConclusionMarked == {"concl", ConclusionOutlook, "conclusion_advice"}
ShortLines == {"x"}

_get_default_outline(topic) ==
    <<TopicOverview, "T_background", "T_status", "T_methods",
      "T_cases", "T_challenges", "T_trends", "conclusion_advice">>

MaxOutline == 10
MinOutline == 3

_parse_outline(response) ==
    LET kept == SelectSeq(response, LAMBDA line : line \notin ShortLines)
    IN  SubSeq(kept, 1, IF Len(kept) < MaxOutline THEN Len(kept) ELSE MaxOutline)

\* mutant: the markers are looked for in the first and the last entry only
_validate_outlineChecksEnds(parsed, topic) ==
    IF Len(parsed) < MinOutline THEN _get_default_outline(topic)
    ELSE LET has_intro == parsed[1] \in IntroMarked
             has_conclusion == parsed[Len(parsed)] \in ConclusionMarked
             withIntro == IF has_intro THEN parsed ELSE <<TopicOverview>> \o parsed
         IN  IF has_conclusion THEN withIntro ELSE Append(withIntro, ConclusionOutlook)

_validate_outline(parsed, topic) ==
    IF Len(parsed) < MinOutline THEN _get_default_outline(topic)
    ELSE LET has_intro == \E i \in 1..Len(parsed) : parsed[i] \in IntroMarked
             has_conclusion == \E i \in 1..Len(parsed) : parsed[i] \in ConclusionMarked
             withIntro == IF has_intro THEN parsed ELSE <<TopicOverview>> \o parsed
         IN  IF has_conclusion THEN withIntro ELSE Append(withIntro, ConclusionOutlook)

\* reply = "raise" when the generation service call raises inside the try
generate_outline(topic, reply) ==
    IF reply = <<"raise">> THEN _get_default_outline(topic)
    ELSE _validate_outline(_parse_outline(reply), topic)

OutlineReplies == { <<"raise">>, <<"intro", "body", "concl">>, <<"body", "x", "body", "body">> }

ReuseOutlineReplies == { <<"intro", "body", "concl">> }

(***************************************************************************)
(* ContentAgent (agents/content_agent.py).  A section text is a record:    *)
(* the post-processed reply for a title, or the fallback paragraph built   *)
(* from title and topic; polished marks a text rewritten by PolishAgent.   *)
(***************************************************************************)
Generated(title) == [kind |-> "generated", title |-> title, polished |-> FALSE]

_generate_fallback_content(title, topic) ==
    [kind |-> "fallback", title |-> title, polished |-> FALSE]

\* failed: whether the generation call for this section raised
generate_section_content(title, topic, failed) ==
    IF failed THEN _generate_fallback_content(title, topic) ELSE Generated(title)

RECURSIVE SectionsFrom(_, _, _, _, _)
SectionsFrom(ol, topic, fail, i, acc) ==
    IF i > Len(ol) THEN acc
    ELSE SectionsFrom(ol, topic, fail, i + 1,
                      DictSet(acc, ol[i], generate_section_content(ol[i], topic, i \in fail)))

\* fail: the outline positions whose generation call raises
generate_all_sections(ol, topic, fail) == SectionsFrom(ol, topic, fail, 1, EmptyDict)

FailSets(n, max) == {S \in SUBSET (1..n) : Cardinality(S) <= max}

\* mutant: the context gets a copy of the section dict taken before the loop
ContextCopiedOnce(ol, topic, i, sections) ==
    [topic |-> topic, outline |-> ol, current_section_index |-> i,
     generated_sections |-> EmptyDict]

\* the context dict of generate_all_sections at iteration i: generated_sections
\* is the dict the loop is filling
ContextFor(ol, topic, i, sections) ==
    [topic |-> topic, outline |-> ol, current_section_index |-> i,
     generated_sections |-> sections]

\* content[:100] + "..." of a section text
Summary(text) == [summary_of |-> text]

\* the parts of the prompt that depend on the context: the outline listing with
\* the current section marked, and one summary line per generated section
_build_content_prompt(section_title, topic, context) ==
    [section_title |-> section_title,
     topic |-> topic,
     outline |-> context.outline,
     current |-> context.current_section_index,
     summaries |-> [j \in 1..Len(context.generated_sections) |->
                      [title |-> context.generated_sections[j].k,
                       summary |-> Summary(context.generated_sections[j].v)]]]

(***************************************************************************)
(* PolishAgent (agents/polish_agent.py).  _polish_with_context has no      *)
(* handler of its own: a raising generation call leaves polish_full_report *)
(* by exception.                                                           *)
(***************************************************************************)
_polish_with_context(text) == [text EXCEPT !.polished = TRUE]

polish_full_report(sections) ==
    [i \in 1..Len(sections) |-> [k |-> sections[i].k, v |-> _polish_with_context(sections[i].v)]]

(***************************************************************************)
(* ChartAgent (agents/chart_agent.py).                                     *)
(***************************************************************************)
chart_types == {"bar", "line", "pie", "scatter", "histogram", "box", "heatmap", "table"}

Drawable == {"bar", "line", "pie", "scatter", "table"}

ChartReqs == { [chart_type |-> "bar", title |-> "c1"],
               [chart_type |-> "line", title |-> "c1"],
               [chart_type |-> "histogram", title |-> "c2"] }

ReuseChartReqs == { [chart_type |-> "bar", title |-> "c1"] }

\* what a method hands to its caller: a value, or an exception
Ret(v) == [exc |-> FALSE, val |-> v]

Raise == [exc |-> TRUE, val |-> <<>>]

\* chart_keywords of _extract_requirements_from_text, in dict order
chart_keywords ==
    << [keyword |-> "kw_bar", chart_type |-> "bar"],
       [keyword |-> "kw_bar2", chart_type |-> "bar"],
       [keyword |-> "kw_line", chart_type |-> "line"],
       [keyword |-> "kw_pie", chart_type |-> "pie"],
       [keyword |-> "kw_scatter", chart_type |-> "scatter"],
       [keyword |-> "kw_table", chart_type |-> "table"] >>

MaxExtracted == 3

\* text: the set of keywords the reply text contains
_extract_requirements_from_text(text) ==
    LET hits == SelectSeq(chart_keywords, LAMBDA e : e.keyword \in text)
        reqs == [j \in 1..Len(hits) |->
                   [chart_type |-> hits[j].chart_type, title |-> hits[j].keyword,
                    description |-> "from_text"]]
    IN  SubSeq(reqs, 1, IF Len(reqs) < MaxExtracted THEN Len(reqs) ELSE MaxExtracted)

\* an element of a JSON list: a number, a string, or an object with the three
\* fields, "" standing for a field that is missing or empty.
\* "raise": the membership test on a number is a TypeError
_validate_chart_requirement(requirement) ==
    IF requirement.item = "number" THEN "raise"
    ELSE IF requirement.item = "string" THEN "false"
    ELSE IF requirement.chart_type = "" \/ requirement.title = "" \/ requirement.description = ""
    THEN "false"
    ELSE IF requirement.chart_type \notin chart_types THEN "false"
    ELSE "true"

\* response: unparsable text, or the parsed JSON value: a scalar (iterating it
\* is a TypeError), an object (its keys are iterated; "descriptor": the keys
\* are the field names, and indexing a key by a field name is a TypeError),
\* or a list of elements.  Only JSONDecodeError is handled here.
_parse_chart_requirements(response) ==
    CASE response.kind = "text" -> Ret(_extract_requirements_from_text(response.keywords))
      [] response.kind = "scalar" -> Raise
      [] response.kind = "object" -> Ret(<<>>)
      [] response.kind = "descriptor" -> Raise
      [] response.kind = "list" ->
           IF \E j \in 1..Len(response.items) :
                 /\ _validate_chart_requirement(response.items[j]) = "raise"
                 /\ \A h \in 1..(j - 1) : _validate_chart_requirement(response.items[h]) # "raise"
           THEN Raise
           ELSE Ret(LET valid == SelectSeq(response.items,
                                          LAMBDA r : _validate_chart_requirement(r) = "true")
                    IN  [j \in 1..Len(valid) |->
                           [chart_type |-> valid[j].chart_type, title |-> valid[j].title,
                            description |-> valid[j].description]])

WithSection(requirements, section_title, content) ==
    [j \in 1..Len(requirements) |->
        [chart_type |-> requirements[j].chart_type, title |-> requirements[j].title,
         description |-> requirements[j].description,
         section_title |-> section_title, section_content |-> content]]

\* mutant: no handler around the generation call and the parsing
_analyze_section_for_visualizationNoHandler(section_title, content, response) ==
    IF response.kind = "raise" THEN Raise
    ELSE LET parsed == _parse_chart_requirements(response)
         IN  IF parsed.exc THEN Raise
             ELSE Ret(WithSection(parsed.val, section_title, content))

\* response.kind = "raise": generate_text raises
_analyze_section_for_visualization(section_title, content, response) ==
    IF response.kind = "raise" THEN Ret(<<>>)
    ELSE LET parsed == _parse_chart_requirements(response)
         IN  IF parsed.exc THEN Ret(<<>>)
             ELSE Ret(WithSection(parsed.val, section_title, content))

\* found: section position -> the validated requirement the analysis of that
\* section yields; a section outside its domain yields none (an empty list,
\* or a failure caught in _analyze_section_for_visualization)
RECURSIVE AnalyzeFrom(_, _, _)
AnalyzeFrom(sections, found, i) ==
    IF i > Len(sections) THEN <<>>
    ELSE (IF i \in DOMAIN found THEN <<found[i]>> ELSE <<>>)
         \o AnalyzeFrom(sections, found, i + 1)

analyze_content_for_charts(sections, found) == AnalyzeFrom(sections, found, 1)

Findings(n, reqSet, maxCharts) ==
    UNION { [S -> reqSet] : S \in FailSets(n, maxCharts) }

ChartPath(req, i) == [chart_type |-> req.chart_type, title |-> req.title, n |-> i]

\* "none" for a kind the renderer has no branch for, "raise" when drawing fails
_generate_single_chart(req, i, drawFails) ==
    IF req.chart_type \notin Drawable THEN "none"
    ELSE IF i \in drawFails THEN "raise"
    ELSE "path"

RECURSIVE ChartsFrom(_, _, _, _)
ChartsFrom(reqs, drawFails, i, acc) ==
    IF i > Len(reqs) THEN acc
    ELSE ChartsFrom(reqs, drawFails, i + 1,
                    IF _generate_single_chart(reqs[i], i, drawFails) = "path"
                    THEN DictSet(acc, reqs[i].title, ChartPath(reqs[i], i))
                    ELSE acc)

generate_charts(reqs, drawFails) == ChartsFrom(reqs, drawFails, 1, EmptyDict)

\* the _generate_single_chart calls generate_charts makes, with their outcomes
DrawCalls(reqs, drawFails) ==
    [i \in 1..Len(reqs) |-> [stage |-> "chart",
                              outcome |-> _generate_single_chart(reqs[i], i, drawFails)]]

(***************************************************************************)
(* ReportFormatter as used by _format_and_save_report.  The outcome of a   *)
(* serializer call (format_markdown / format_json plus the file write,     *)
(* format_docx) is "ok", "fail" (it raises) or "absent" (format_docx       *)
(* raises ImportError).                                                    *)
(***************************************************************************)
Serialized == {"markdown", "json", "docx"}

FormatOutcomes(fmts) ==
    { o \in [1..Len(fmts) -> {"ok", "fail", "absent"}] :
        \A i \in 1..Len(fmts) :
            /\ o[i] = "absent" => fmts[i] = "docx"
            /\ fmts[i] \notin Serialized => o[i] = "ok" }

FilePath(fmt) == [base |-> "report", ext |-> fmt]

\* mutant: a missing python-docx ends the export like any other failure
DocxAbsentFatal(acc, tried) ==
    [acc EXCEPT !.raised = TRUE, !.tried = tried]

\* except ImportError: log the warning and go on with the next format
DocxAbsent(acc, tried) ==
    [acc EXCEPT !.msgs = Append(@, Entry("docx_missing", 0)), !.tried = tried]

\* except Exception around format_docx: log and go on with the next format
DocxFailed(acc, tried) ==
    [acc EXCEPT !.msgs = Append(@, Entry("docx_fail", 0)), !.tried = tried]

NoExport == [files |-> EmptyDict, msgs |-> <<>>, raised |-> FALSE, tried |-> <<>>]

\* the for loop of _format_and_save_report, from position i on
RECURSIVE ExportFrom(_, _, _, _)
ExportFrom(fmts, o, i, acc) ==
    IF i > Len(fmts) THEN acc
    ELSE LET f == fmts[i]
             tried == Append(acc.tried, Call(f, o[i]))
         IN  IF f \in {"markdown", "json"}
             THEN IF o[i] = "ok"
                  THEN ExportFrom(fmts, o, i + 1,
                                  [acc EXCEPT !.files = DictSet(@, f, FilePath(f)),
                                              !.tried = tried])
                  ELSE [acc EXCEPT !.raised = TRUE, !.tried = tried]
             ELSE IF f = "docx"
             THEN ExportFrom(fmts, o, i + 1,
                    CASE o[i] = "ok" ->
                           [acc EXCEPT !.files = DictSet(@, f, FilePath(f)), !.tried = tried]
                      [] o[i] = "absent" -> DocxAbsent(acc, tried)
                      [] OTHER -> DocxFailed(acc, tried))
             ELSE ExportFrom(fmts, o, i + 1, acc)

\* mutant: an identifier outside markdown, json and docx is an error
_format_and_save_reportRejectsUnknown(fmts, o) ==
    IF \E i \in 1..Len(fmts) : fmts[i] \notin Serialized
    THEN [NoExport EXCEPT !.raised = TRUE]
    ELSE ExportFrom(fmts, o, 1, NoExport)

_format_and_save_report(fmts, o) == ExportFrom(fmts, o, 1, NoExport)

(***************************************************************************)
(* ReportCoordinator.generate_report (coordinator.py).                     *)
(***************************************************************************)
\* mutant: the polish step is left out of the sequence
StageAfterSkipsPolish(stage) ==
    CASE stage = "outline" -> "content"
      [] stage = "content" -> "charts"
      [] stage = "polish" -> "charts"
      [] stage = "charts" -> "export"

\* mutant: the polish step comes before the content step
StageAfterPolishFirst(stage) ==
    CASE stage = "outline" -> "polish"
      [] stage = "polish" -> "content"
      [] stage = "content" -> "charts"
      [] stage = "charts" -> "export"

\* the statement order of the try block: the stage that follows each stage
StageAfter(stage) ==
    CASE stage = "outline" -> "content"
      [] stage = "content" -> "polish"
      [] stage = "polish" -> "charts"
      [] stage = "charts" -> "export"

\* mutant: the error report carries no message
ErrorReturnNoMessage(msgs, err) ==
    /\ SetLog(Append(msgs, Entry("failed", 0)))
    /\ result' = [status |-> "error", error |-> "", sections |-> <<>>, charts |-> <<>>,
                  output_files |-> <<>>, workflow_status |-> Len(status_objs),
                  generation_log |-> Len(log_objs), run |-> runs]
    /\ pc' = "idle"
    /\ outline' = <<>>
    /\ sections_content' = <<>>
    /\ charts' = <<>>

\* the except branch of generate_report: build error_report, log, return it
ErrorReturn(msgs, err) ==
    /\ SetLog(Append(msgs, Entry("failed", 0)))
    /\ result' = [status |-> "error", error |-> err, sections |-> <<>>, charts |-> <<>>,
                  output_files |-> <<>>, workflow_status |-> Len(status_objs),
                  generation_log |-> Len(log_objs), run |-> runs]
    /\ pc' = "idle"
    /\ outline' = <<>>
    /\ sections_content' = <<>>
    /\ charts' = <<>>

Begin(enable_polish, enable_charts, output_formats) ==
    /\ pc = "idle"
    /\ runs' = runs + 1
    /\ args' = [enable_polish |-> enable_polish, enable_charts |-> enable_charts,
                output_formats |-> output_formats]
    /\ SetLog(<<Entry("start", 0)>>)
    /\ pc' = "outline"
    /\ calls' = <<>>
    /\ content_out' = <<>>
    /\ UNCHANGED <<status_objs, outline, sections_content, charts, result, resets, agent_call, llm_failure>>

\* step 1 and _generate_outline
GenerateOutline(replies) ==
    /\ pc = "outline"
    /\ \/ \E reply \in replies :
            LET ol == generate_outline(Topic, reply)
            IN  /\ outline' = ol
                /\ SetFlag("outline_generated")
                /\ SetLog(<<Entry("step1", 0), Entry("outline_ok", Len(ol))>>)
                /\ calls' = Append(calls, Call("outline", "ok"))
                /\ pc' = StageAfter("outline")
                /\ UNCHANGED <<sections_content, charts, result>>
       \/ /\ ErrorReturn(<<Entry("step1", 0), Entry("outline_fail", 0)>>, "outline_fail")
          /\ calls' = Append(calls, Call("outline", "raised"))
          /\ UNCHANGED status_objs
    /\ UNCHANGED <<args, content_out, runs, resets, agent_call, llm_failure>>

\* mutant: the handler of _generate_content logs and goes on instead of re-raising
GenerateContentSwallows(maxFallbacks) ==
    /\ pc = "content"
    /\ \/ \E fail \in FailSets(Len(outline), maxFallbacks) :
            LET sc == generate_all_sections(outline, Topic, fail)
            IN  /\ sections_content' = sc
                /\ content_out' = sc
                /\ SetFlag("content_generated")
                /\ SetLog(<<Entry("step2", 0), Entry("content_ok", Len(sc))>>)
                /\ calls' = Append(calls, Call("content", "ok"))
       \/ /\ SetLog(<<Entry("step2", 0), Entry("content_fail", 0)>>)
          /\ calls' = Append(calls, Call("content", "raised"))
          /\ UNCHANGED <<status_objs, content_out, sections_content>>
    /\ pc' = StageAfter("content")
    /\ UNCHANGED <<args, outline, charts, result, runs, resets, agent_call, llm_failure>>

\* step 2 and _generate_content
GenerateContent(maxFallbacks) ==
    /\ pc = "content"
    /\ \/ \E fail \in FailSets(Len(outline), maxFallbacks) :
            LET sc == generate_all_sections(outline, Topic, fail)
            IN  /\ sections_content' = sc
                /\ content_out' = sc
                /\ SetFlag("content_generated")
                /\ SetLog(<<Entry("step2", 0), Entry("content_ok", Len(sc))>>)
                /\ calls' = Append(calls, Call("content", "ok"))
                /\ pc' = StageAfter("content")
                /\ UNCHANGED <<outline, charts, result>>
       \/ /\ ErrorReturn(<<Entry("step2", 0), Entry("content_fail", 0)>>, "content_fail")
          /\ calls' = Append(calls, Call("content", "raised"))
          /\ UNCHANGED <<status_objs, content_out>>
    /\ UNCHANGED <<args, runs, resets, agent_call, llm_failure>>

\* mutant: the polish agent is called whatever enable_polish is
PolishContentIgnoresToggle ==
    /\ pc = "polish"
    /\ \/ /\ sections_content' = polish_full_report(sections_content)
          /\ SetFlag("content_polished")
          /\ SetLog(<<Entry("step3", 0), Entry("polish_ok", 0)>>)
          /\ calls' = Append(calls, Call("polish", "ok"))
       \/ /\ SetLog(<<Entry("step3", 0), Entry("polish_fail", 0)>>)
          /\ calls' = Append(calls, Call("polish", "raised"))
          /\ UNCHANGED <<status_objs, sections_content>>
    /\ pc' = StageAfter("polish")
    /\ UNCHANGED <<args, outline, charts, content_out, result, runs, resets, agent_call, llm_failure>>

\* mutant: the polish flag is set before the agent is called
PolishContentFlagsFirst ==
    /\ pc = "polish"
    /\ IF args.enable_polish
       THEN \/ /\ sections_content' = polish_full_report(sections_content)
               /\ SetFlag("content_polished")
               /\ SetLog(<<Entry("step3", 0), Entry("polish_ok", 0)>>)
               /\ calls' = Append(calls, Call("polish", "ok"))
            \/ /\ SetFlag("content_polished")
               /\ SetLog(<<Entry("step3", 0), Entry("polish_fail", 0)>>)
               /\ calls' = Append(calls, Call("polish", "raised"))
               /\ UNCHANGED sections_content
       ELSE /\ SetLog(<<Entry("skip_polish", 0)>>)
            /\ UNCHANGED <<status_objs, sections_content, calls>>
    /\ pc' = StageAfter("polish")
    /\ UNCHANGED <<args, outline, charts, content_out, result, runs, resets, agent_call, llm_failure>>

\* step 3 and _polish_content
PolishContent ==
    /\ pc = "polish"
    /\ IF args.enable_polish
       THEN \/ /\ sections_content' = polish_full_report(sections_content)
               /\ SetFlag("content_polished")
               /\ SetLog(<<Entry("step3", 0), Entry("polish_ok", 0)>>)
               /\ calls' = Append(calls, Call("polish", "ok"))
            \/ /\ SetLog(<<Entry("step3", 0), Entry("polish_fail", 0)>>)
               /\ calls' = Append(calls, Call("polish", "raised"))
               /\ UNCHANGED <<status_objs, sections_content>>
       ELSE /\ SetLog(<<Entry("skip_polish", 0)>>)
            /\ UNCHANGED <<status_objs, sections_content, calls>>
    /\ pc' = StageAfter("polish")
    /\ UNCHANGED <<args, outline, charts, content_out, result, runs, resets, agent_call, llm_failure>>

\* step 4 and _generate_charts
GenerateCharts(reqSet, maxCharts) ==
    /\ pc = "charts"
    /\ IF args.enable_charts
       THEN \/ \E found \in Findings(Len(sections_content), reqSet, maxCharts) :
                 LET reqs == analyze_content_for_charts(sections_content, found)
                 IN  IF reqs # <<>>
                     THEN \/ \E drawFails \in SUBSET (1..Len(reqs)) :
                               LET ch == generate_charts(reqs, drawFails)
                               IN  /\ charts' = ch
                                   /\ SetFlag("charts_generated")
                                   /\ SetLog(<<Entry("step4", 0), Entry("charts_ok", Len(ch))>>)
                                   /\ calls' = calls \o <<Call("analyze", "ok"), Call("render", "ok")>>
                                                \o DrawCalls(reqs, drawFails)
                          \/ /\ charts' = EmptyDict
                             /\ SetLog(<<Entry("step4", 0), Entry("charts_fail", 0)>>)
                             /\ calls' = calls \o <<Call("analyze", "ok"), Call("render", "raised")>>
                             /\ UNCHANGED status_objs
                     ELSE /\ charts' = EmptyDict
                          /\ SetLog(<<Entry("step4", 0), Entry("no_charts", 0)>>)
                          /\ calls' = Append(calls, Call("analyze", "ok"))
                          /\ UNCHANGED status_objs
            \/ /\ charts' = EmptyDict
               /\ SetLog(<<Entry("step4", 0), Entry("charts_fail", 0)>>)
               /\ calls' = Append(calls, Call("analyze", "raised"))
               /\ UNCHANGED status_objs
       ELSE /\ charts' = EmptyDict
            /\ SetLog(<<Entry("skip_charts", 0)>>)
            /\ UNCHANGED <<status_objs, calls>>
    /\ pc' = StageAfter("charts")
    /\ UNCHANGED <<args, outline, sections_content, content_out, result, runs, resets, agent_call, llm_failure>>

\* step 5: report_data, _format_and_save_report, final_report and return
FormatAndSave ==
    /\ pc = "export"
    /\ \E o \in FormatOutcomes(args.output_formats) :
          LET ex == _format_and_save_report(args.output_formats, o)
          IN  IF ex.raised
              THEN /\ ErrorReturn(<<Entry("step5", 0)>> \o ex.msgs \o <<Entry("format_fail", 0)>>,
                                  "format_fail")
                   /\ calls' = calls \o <<Call("export", "raised")>> \o ex.tried
                   /\ UNCHANGED status_objs
              ELSE /\ SetFlag("report_formatted")
                   /\ SetLog(<<Entry("step5", 0)>> \o ex.msgs
                             \o <<Entry("saved", Len(ex.files)), Entry("done", 0)>>)
                   /\ calls' = calls \o <<Call("export", "ok")>> \o ex.tried
                   /\ result' = [status |-> "success", error |-> "",
                                 sections |-> sections_content, charts |-> charts,
                                 output_files |-> ex.files,
                                 workflow_status |-> Len(status_objs),
                                 generation_log |-> Len(log_objs), run |-> runs]
                   /\ pc' = "idle"
                   /\ outline' = <<>>
                   /\ sections_content' = <<>>
                   /\ charts' = <<>>
    /\ UNCHANGED <<args, content_out, runs, resets, agent_call, llm_failure>>

\* mutant: reset_workflow clears the log but keeps the flags
ResetWorkflowKeepsFlags ==
    /\ pc = "idle"
    /\ resets < MaxResets
    /\ resets' = resets + 1
    /\ status_objs' = Append(status_objs, workflow_status)
    /\ log_objs' = Append(log_objs, <<Entry("reset", 0)>>)
    /\ UNCHANGED <<pc, args, outline, sections_content, charts, content_out, calls,
                   result, runs, agent_call, llm_failure>>

\* reset_workflow, called between runs
ResetWorkflow ==
    /\ pc = "idle"
    /\ resets < MaxResets
    /\ resets' = resets + 1
    /\ status_objs' = Append(status_objs, FreshStatus)
    /\ log_objs' = Append(log_objs, <<Entry("reset", 0)>>)
    /\ UNCHANGED <<pc, args, outline, sections_content, charts, content_out, calls,
                   result, runs, agent_call, llm_failure>>

\* one generate_report call on a freshly constructed coordinator, over the
\* outcomes of the four agents
Next ==
    \/ /\ runs = 0
       /\ \E ep \in BOOLEAN, ec \in BOOLEAN, fmts \in StageFormatLists : Begin(ep, ec, fmts)
    \/ GenerateOutline(OutlineReplies)
    \/ GenerateContent(MaxFallbacks)
    \/ PolishContent
    \/ GenerateCharts(ChartReqs, MaxCharts)
    \/ FormatAndSave

Spec == Init /\ [][Next]_vars

\* one generate_report call on a freshly constructed coordinator, over the
\* lists of requested formats and the outcomes of their serializers
NextExport ==
    \/ /\ runs = 0
       /\ \E ep \in BOOLEAN, ec \in BOOLEAN, fmts \in FormatLists : Begin(ep, ec, fmts)
    \/ GenerateOutline(ReuseOutlineReplies)
    \/ GenerateContent(0)
    \/ PolishContent
    \/ GenerateCharts(ReuseChartReqs, 1)
    \/ FormatAndSave

SpecExport == Init /\ [][NextExport]_vars

\* a coordinator reused for several calls, with reset_workflow between calls
NextReuse ==
    \/ /\ runs < MaxRuns
       /\ \E ep \in BOOLEAN, ec \in BOOLEAN, fmts \in ReuseFormatLists : Begin(ep, ec, fmts)
    \/ GenerateOutline(ReuseOutlineReplies)
    \/ GenerateContent(0)
    \/ PolishContent
    \/ GenerateCharts(ReuseChartReqs, 1)
    \/ FormatAndSave
    \/ ResetWorkflow

SpecReuse == Init /\ [][NextReuse]_vars

(***************************************************************************)
(* LLMClient (utils/llm_client_new.py) when the generation service fails.  *)
(* A prompt is known by the agent that built it and by whether it holds    *)
(* the word the demo mode looks for first; a reply text is a token.        *)
(***************************************************************************)
\* the outline prompt asks for an outline, the content prompt lists the outline
Prompt(kind) == [kind |-> kind, outline_word |-> kind \in {"outline", "content"}]

_call_demo(prompt) ==
    IF prompt.outline_word THEN "demo_outline"
    ELSE IF prompt.kind = "polish" THEN "demo_polish"
    ELSE IF prompt.kind = "chart" THEN "demo_charts"
    ELSE "demo_default"

\* failure: "none" (the service answers), "no_library" (import openai fails),
\* "api_error" (an error whose message mentions api or key, a missing key
\* included), "other_error" (any other error of the call)
_call_openai(failure, prompt) ==
    CASE failure = "none" -> Ret("generated")
      [] failure = "no_library" -> Raise
      [] failure = "api_error" -> Ret("warning_openai")
      [] OTHER -> Ret(_call_demo(prompt))

\* failure: "none", "connection" (ConnectionError) or "other_error"
_call_vllm(failure, prompt) ==
    CASE failure = "none" -> Ret("generated")
      [] failure = "connection" -> Ret("warning_vllm")
      [] OTHER -> Ret(_call_demo(prompt))

generate_text(client, prompt) ==
    CASE client.model_type = "openai" -> _call_openai(client.failure, prompt)
      [] client.model_type = "vllm" -> _call_vllm(client.failure, prompt)
      [] client.model_type = "demo" -> Ret(_call_demo(prompt))
      [] OTHER -> Raise

Outages ==
    { [model_type |-> "openai", failure |-> f] : f \in {"no_library", "api_error", "other_error"} }
    \cup { [model_type |-> "vllm", failure |-> f] : f \in {"connection", "other_error"} }

\* the lines _parse_outline finds in a reply text
ResponseLines(text) ==
    IF text = "demo_outline"
    THEN <<"intro", "demo_status", "demo_methods", "demo_cases", "demo_trends",
           "demo_challenges", "concl">>
    ELSE <<text>>

\* the chart keywords a reply text contains: the warnings and the demo texts
\* contain none
KeywordsIn(text) == {}

OutlineReplyUnder(client) ==
    LET r == generate_text(client, Prompt("outline"))
    IN  IF r.exc THEN <<"raise">> ELSE ResponseLines(r.val)

AnalysisReplyUnder(client) ==
    LET r == generate_text(client, Prompt("chart"))
    IN  IF r.exc THEN [kind |-> "raise"] ELSE [kind |-> "text", keywords |-> KeywordsIn(r.val)]

OutageFormatLists == { <<"markdown">>, <<"markdown", "json">>, <<"json", "markdown">> }

(***************************************************************************)
(* generate_report while every call of the generation service fails the    *)
(* way llm_failure says; the serializers and the file system work.         *)
(***************************************************************************)
LastCall == calls'[Len(calls')]

OutageBegin ==
    /\ runs = 0
    /\ \E ep \in BOOLEAN, ec \in BOOLEAN, fmts \in OutageFormatLists : Begin(ep, ec, fmts)

OutageOutline ==
    /\ GenerateOutline({OutlineReplyUnder(llm_failure)})
    /\ LastCall = Call("outline", "ok")

OutageContent ==
    /\ GenerateContent(Len(outline))
    /\ LastCall = Call("content", "ok")
    /\ content_out' =
          generate_all_sections(outline, Topic,
              IF generate_text(llm_failure, Prompt("content")).exc
              THEN 1..Len(outline) ELSE {})

OutagePolish ==
    /\ PolishContent
    /\ args.enable_polish =>
          LastCall = Call("polish", IF generate_text(llm_failure, Prompt("polish")).exc
                                    THEN "raised" ELSE "ok")

OutageCharts ==
    /\ GenerateCharts(ChartReqs, 0)
    /\ args.enable_charts =>
          /\ LastCall = Call("analyze", "ok")
          /\ \A i \in 1..Len(sections_content) :
                _analyze_section_for_visualization(sections_content[i].k, sections_content[i].v,
                                                   AnalysisReplyUnder(llm_failure)) = Ret(<<>>)

OutageExport ==
    /\ FormatAndSave
    /\ \A i \in 1..Len(calls') : calls'[i].stage \in Serialized => calls'[i].outcome = "ok"

InitOutage ==
    /\ status_objs = <<FreshStatus>>
    /\ log_objs = << <<>> >>
    /\ pc = "idle"
    /\ args = NoArgs
    /\ outline = <<>>
    /\ sections_content = <<>>
    /\ charts = <<>>
    /\ content_out = <<>>
    /\ calls = <<>>
    /\ result = NoResult
    /\ runs = 0
    /\ resets = 0
    /\ agent_call = NoCall
    /\ llm_failure \in Outages

NextOutage ==
    \/ OutageBegin
    \/ OutageOutline
    \/ OutageContent
    \/ OutagePolish
    \/ OutageCharts
    \/ OutageExport

SpecOutage == InitOutage /\ [][NextOutage]_vars

(***************************************************************************)
(* The agents' methods called on their own.  agent_call holds the method   *)
(* (op), its arguments, the position of the call and what it returned.     *)
(***************************************************************************)
\* replies of n lines: body lines, with at most one introduction-marked line,
\* one conclusion-marked line and one line of at most 3 characters
ReplyShapes(n) ==
    { [i \in 1..n |-> IF i = a THEN "intro"
                      ELSE IF i = b THEN "concl"
                      ELSE IF i = c THEN "x" ELSE "body"] : a, b, c \in 0..n }

LineLists == UNION { ReplyShapes(n) : n \in 0..MaxReplyLines }

OutlineCall(reply) ==
    [op |-> "generate_outline", pc |-> "call", reply |-> reply, result |-> <<>>]

ValidateCall(ol) ==
    [op |-> "_validate_outline", pc |-> "call", outline |-> ol, once |-> <<>>, twice |-> <<>>]

\* OutlineAgent.generate_outline(topic)
CallGenerateOutline ==
    /\ agent_call.op = "generate_outline"
    /\ agent_call.pc = "call"
    /\ agent_call' = [agent_call EXCEPT !.pc = "done",
                                        !.result = generate_outline(Topic, agent_call.reply)]
    /\ UNCHANGED coordinator_vars

\* OutlineAgent._validate_outline applied to an outline, then to its own result
CallValidateOutline ==
    /\ agent_call.op = "_validate_outline"
    /\ \/ /\ agent_call.pc = "call"
          /\ agent_call' = [agent_call EXCEPT !.pc = "once",
                               !.once = _validate_outline(agent_call.outline, Topic)]
       \/ /\ agent_call.pc = "once"
          /\ agent_call' = [agent_call EXCEPT !.pc = "done",
                               !.twice = _validate_outline(agent_call.once, Topic)]
    /\ UNCHANGED coordinator_vars

SectionTitles == {"intro", "body", "concl"}

Outlines == UNION { [1..n -> SectionTitles] : n \in 0..MaxSections }

\* origin: for each key of sections_content, the outline position that wrote
\* its value; seen: origin as it was when each prompt was built
\* fail: the outline positions whose generation call raises
ContentCall(ol, fail) ==
    [op |-> "generate_all_sections", pc |-> "loop", outline |-> ol, fail |-> fail, i |-> 1,
     sections_content |-> EmptyDict, prompts |-> <<>>, origin |-> EmptyDict, seen |-> <<>>]

\* ContentAgent.generate_all_sections: one iteration of the loop, or the return
CallGenerateAllSections ==
    /\ agent_call.op = "generate_all_sections"
    /\ agent_call.pc = "loop"
    /\ LET i == agent_call.i
           ol == agent_call.outline
       IN  IF i > Len(ol)
           THEN agent_call' = [agent_call EXCEPT !.pc = "done"]
           ELSE LET context == ContextFor(ol, Topic, i, agent_call.sections_content)
                    prompt == _build_content_prompt(ol[i], Topic, context)
                    content == generate_section_content(ol[i], Topic, i \in agent_call.fail)
                IN  agent_call' =
                      [agent_call EXCEPT !.i = i + 1,
                                         !.prompts = Append(@, prompt),
                                         !.seen = Append(@, agent_call.origin),
                                         !.sections_content = DictSet(@, ol[i], content),
                                         !.origin = DictSet(@, ol[i], i)]
    /\ UNCHANGED coordinator_vars

\* section dicts as the content stage produces them
SectionDicts ==
    { generate_all_sections(ol, Topic, f) : ol \in Outlines, f \in SUBSET (1..MaxSections) }

\* fail: the positions whose generation call raises inside _polish_with_context
PolishCall(sc, fail) ==
    [op |-> "_polish_content", pc |-> "loop", sections_content |-> sc, fail |-> fail, i |-> 1,
     polished_sections |-> EmptyDict, attempts |-> <<>>, returned |-> EmptyDict]

\* ReportCoordinator._polish_content around PolishAgent.polish_full_report: one
\* iteration of the agent's loop; an exception of _polish_with_context leaves the
\* loop and is caught by the coordinator, which returns its argument
CallPolishContent ==
    /\ agent_call.op = "_polish_content"
    /\ agent_call.pc = "loop"
    /\ LET i == agent_call.i
           sc == agent_call.sections_content
       IN  IF i > Len(sc)
           THEN agent_call' = [agent_call EXCEPT !.pc = "done",
                                                !.returned = agent_call.polished_sections]
           ELSE IF i \in agent_call.fail
           THEN agent_call' = [agent_call EXCEPT !.pc = "done",
                                                !.attempts = Append(@, "raised"),
                                                !.returned = sc]
           ELSE agent_call' =
                  [agent_call EXCEPT !.i = i + 1,
                                     !.attempts = Append(@, "ok"),
                                     !.polished_sections =
                                         DictSet(@, sc[i].k, _polish_with_context(sc[i].v))]
    /\ UNCHANGED coordinator_vars

RequestLists == UNION { [1..n -> ChartReqs] : n \in 0..MaxRequests }

\* drawFails: the positions whose drawing raises
RenderCall(reqs, drawFails) ==
    [op |-> "generate_charts", pc |-> "loop", chart_requirements |-> reqs,
     drawFails |-> drawFails, i |-> 1, attempts |-> <<>>, generated_charts |-> EmptyDict]

\* ChartAgent.generate_charts: one iteration of the loop (the try around
\* _generate_single_chart and its handler), or the return
CallGenerateCharts ==
    /\ agent_call.op = "generate_charts"
    /\ agent_call.pc = "loop"
    /\ LET i == agent_call.i
           reqs == agent_call.chart_requirements
       IN  IF i > Len(reqs)
           THEN agent_call' = [agent_call EXCEPT !.pc = "done"]
           ELSE LET chart_path == _generate_single_chart(reqs[i], i, agent_call.drawFails)
                IN  agent_call' =
                      [agent_call EXCEPT
                         !.i = i + 1,
                         !.attempts = Append(@, chart_path),
                         !.generated_charts =
                             IF chart_path = "path"
                             THEN DictSet(@, reqs[i].title, ChartPath(reqs[i], i))
                             ELSE @]
    /\ UNCHANGED coordinator_vars

Descriptor(t, ti, d) == [item |-> "dict", chart_type |-> t, title |-> ti, description |-> d]

JsonLists ==
    { <<>>,
      << [item |-> "number"] >>,
      << [item |-> "string"] >>,
      << Descriptor("bar", "c1", "d") >>,
      << Descriptor("radar", "c1", "d") >>,
      << Descriptor("bar", "", "d") >>,
      << Descriptor("line", "c1", "d"), [item |-> "number"] >>,
      << Descriptor("pie", "c1", ""), Descriptor("histogram", "c2", "d"),
         Descriptor("bar", "c1", "d") >> }

AnalysisReplies ==
    { [kind |-> "raise"], [kind |-> "scalar"], [kind |-> "object"], [kind |-> "descriptor"] }
    \cup { [kind |-> "text", keywords |-> k] :
             k \in { {}, {"kw_line"}, {"kw_table", "kw_bar"},
                     {"kw_bar", "kw_bar2", "kw_pie", "kw_scatter"} } }
    \cup { [kind |-> "list", items |-> l] : l \in JsonLists }

AnalyzedDicts ==
    { generate_all_sections(ol, Topic, {}) :
        ol \in UNION { [1..n -> SectionTitles] : n \in 0..MaxAnalyzed } }

\* replies: the reply of the generation service for each section
AnalysisCall(sc, replies) ==
    [op |-> "analyze_content_for_charts", pc |-> "loop", sections_content |-> sc,
     replies |-> replies, i |-> 1, chart_requirements |-> <<>>]

\* ChartAgent.analyze_content_for_charts: one iteration of the loop, or the
\* return; the loop has no handler of its own
CallAnalyzeContentForCharts ==
    /\ agent_call.op = "analyze_content_for_charts"
    /\ agent_call.pc = "loop"
    /\ LET i == agent_call.i
           sc == agent_call.sections_content
       IN  IF i > Len(sc)
           THEN agent_call' = [agent_call EXCEPT !.pc = "done"]
           ELSE LET requirements ==
                      _analyze_section_for_visualization(sc[i].k, sc[i].v, agent_call.replies[i])
                IN  IF requirements.exc
                    THEN agent_call' = [agent_call EXCEPT !.pc = "raised"]
                    ELSE agent_call' =
                           [agent_call EXCEPT !.i = i + 1,
                                              !.chart_requirements = @ \o requirements.val]
    /\ UNCHANGED coordinator_vars

\* the clients LLMClient.__init__ accepts, each with the ways its service
\* can fail
Clients ==
    { [model_type |-> "openai", failure |-> f] :
        f \in {"none", "no_library", "api_error", "other_error"} }
    \cup { [model_type |-> "vllm", failure |-> f] : f \in {"none", "connection", "other_error"} }
    \cup { [model_type |-> "demo", failure |-> "none"] }

PromptKinds == {"outline", "content", "polish", "chart"}

TextCall(client, kind) ==
    [op |-> "generate_text", pc |-> "call", client |-> client, prompt |-> Prompt(kind),
     result |-> Ret("")]

\* LLMClient.generate_text(prompt)
CallGenerateText ==
    /\ agent_call.op = "generate_text"
    /\ agent_call.pc = "call"
    /\ agent_call' = [agent_call EXCEPT !.pc = "done",
                                        !.result = generate_text(agent_call.client,
                                                                 agent_call.prompt)]
    /\ UNCHANGED coordinator_vars

\* the kinds a requirement handed to the renderer can carry: those the
\* validation accepts, and one it rejects
RequestedKinds == chart_types \cup {"radar"}

\* draw_fails: whether the drawing routine of the kind raises
SingleChartCall(kind, draw_fails) ==
    [op |-> "_generate_single_chart", pc |-> "call",
     requirement |-> [chart_type |-> kind, title |-> "c1"], draw_fails |-> draw_fails,
     result |-> ""]

\* ChartAgent._generate_single_chart(requirement)
CallGenerateSingleChart ==
    /\ agent_call.op = "_generate_single_chart"
    /\ agent_call.pc = "call"
    /\ agent_call' =
          [agent_call EXCEPT !.pc = "done",
                             !.result = _generate_single_chart(
                                            agent_call.requirement, 1,
                                            IF agent_call.draw_fails THEN {1} ELSE {})]
    /\ UNCHANGED coordinator_vars

\* the calls made, each with its arguments and the outcomes of the
\* generation and drawing calls it makes
IsAgentCall(c) ==
    \/ \E kind \in RequestedKinds, draw_fails \in BOOLEAN : c = SingleChartCall(kind, draw_fails)
    \/ \E client \in Clients, kind \in PromptKinds : c = TextCall(client, kind)
    \/ \E r \in LineLists \cup { <<"raise">> } : c = OutlineCall(r)
    \/ \E ol \in LineLists : c = ValidateCall(ol)
    \/ \E ol \in Outlines, f \in SUBSET (1..MaxSections) : c = ContentCall(ol, f)
    \/ \E sc \in SectionDicts, f \in SUBSET (1..MaxSections) : c = PolishCall(sc, f)
    \/ \E reqs \in RequestLists, d \in SUBSET (1..MaxRequests) : c = RenderCall(reqs, d)
    \/ \E sc \in AnalyzedDicts :
          \E r \in [1..Len(sc) -> AnalysisReplies] : c = AnalysisCall(sc, r)

InitAgents ==
    /\ status_objs = <<FreshStatus>>
    /\ log_objs = << <<>> >>
    /\ pc = "idle"
    /\ args = NoArgs
    /\ outline = <<>>
    /\ sections_content = <<>>
    /\ charts = <<>>
    /\ content_out = <<>>
    /\ calls = <<>>
    /\ result = NoResult
    /\ runs = 0
    /\ resets = 0
    /\ llm_failure = NoFailure
    /\ IsAgentCall(agent_call)

NextAgents ==
    \/ CallGenerateOutline
    \/ CallValidateOutline
    \/ CallGenerateAllSections
    \/ CallPolishContent
    \/ CallGenerateCharts
    \/ CallAnalyzeContentForCharts
    \/ CallGenerateText
    \/ CallGenerateSingleChart

SpecAgents == InitAgents /\ [][NextAgents]_vars

(***************************************************************************)
(* Vocabulary of the properties.                                           *)
(***************************************************************************)
Range(seq) == {seq[i] : i \in 1..Len(seq)}

HasCall(c) == c \in Range(calls)

Called(stage) == \E i \in 1..Len(calls) : calls[i].stage = stage

\* generate_report has returned and no later call has begun
Returned == pc = "idle" /\ runs > 0 /\ result.run = runs

\* the workflow state seen through the returned report
ReturnedStatus == status_objs[result.workflow_status]

ReturnedLog == log_objs[result.generation_log]

(***************************************************************************)
(* C1: generate_report never raises to its caller: whatever the stages do, *)
(* the call ends by returning a report whose status is "success" or        *)
(* "error", and an "error" report carries an error message.                *)
(***************************************************************************)
C1_NeverRaises ==
    /\ pc \in {"idle", "outline", "content", "polish", "charts", "export"}
    /\ (pc = "idle" /\ runs > 0) =>
          /\ result.run = runs
          /\ result.status \in {"success", "error"}
          /\ result.status = "error" => result.error # ""
          /\ result.status = "success" => result.error = ""

C1_Witness ==
    /\ Returned
    /\ result.status = "error"
    /\ result.error = "format_fail"
    /\ HasCall(Call("polish", "raised"))
    /\ HasCall(Call("render", "raised"))

(***************************************************************************)
(* C2: stages run in dependency order: content only after the outline      *)
(* completed, polish and chart selection only after content completed,     *)
(* export only after every enabled one of polish and chart selection has   *)
(* finished, by completing or by a failure the coordinator recovers from.  *)
(***************************************************************************)
Before(i, c) == \E j \in 1..(i - 1) : calls[j] = c

StageBefore(i, stage) == \E j \in 1..(i - 1) : calls[j].stage = stage

C2_StageOrder ==
    /\ \A i \in 1..Len(calls) :
          /\ calls[i].stage = "content" => Before(i, Call("outline", "ok"))
          /\ calls[i].stage \in {"polish", "analyze"} => Before(i, Call("content", "ok"))
          /\ calls[i].stage = "export" =>
                /\ Before(i, Call("content", "ok"))
                /\ args.enable_polish => StageBefore(i, "polish")
                /\ args.enable_charts => StageBefore(i, "analyze")
    /\ pc = "content" => HasCall(Call("outline", "ok"))
    /\ pc \in {"polish", "charts", "export"} => HasCall(Call("content", "ok"))
    /\ pc = "export" =>
          /\ args.enable_polish => Called("polish")
          /\ args.enable_charts => Called("analyze")

C2_Witness ==
    /\ Returned
    /\ calls = <<Call("outline", "ok"), Call("content", "ok"), Call("polish", "raised"),
                 Call("analyze", "ok"), Call("render", "ok"), Call("chart", "path"),
                 Call("export", "ok"), Call("markdown", "ok")>>

(***************************************************************************)
(* C3: when the outline stage or the content stage raises to the           *)
(* coordinator the run is aborted: the raising call is the last call of    *)
(* the run, the step that catches it changes no stage flag, and the report *)
(* returned has status "error".                                            *)
(***************************************************************************)
FatalRaised ==
    \E i \in 1..Len(calls) :
        calls[i].stage \in {"outline", "content"} /\ calls[i].outcome = "raised"

C3_FatalAbort ==
    [][ (FatalRaised' /\ pc # "idle") =>
          /\ pc' = "idle"
          /\ calls'[Len(calls')].stage \in {"outline", "content"}
          /\ calls'[Len(calls')].outcome = "raised"
          /\ \A i \in 1..(Len(calls') - 1) : calls'[i].outcome = "ok"
          /\ result'.status = "error"
          /\ result'.run = runs'
          /\ result'.output_files = EmptyDict
          /\ workflow_status' = workflow_status
      ]_vars

C3_Witness ==
    /\ Returned
    /\ runs = 2
    /\ calls = <<Call("outline", "ok"), Call("content", "raised")>>
    /\ result.status = "error"
    /\ ~workflow_status["content_generated"]

(***************************************************************************)
(* C4: when the polish stage fails the run goes on to charts and export    *)
(* with exactly the section texts the content stage produced, a failure    *)
(* entry is appended to the log, the polish flag is left as it was (false  *)
(* on a coordinator that has not polished before), and the failure does    *)
(* not make the run an error.                                              *)
(***************************************************************************)
PolishFailed == HasCall(Call("polish", "raised"))

ChartCalls == {i \in 1..Len(calls) : calls[i].stage = "chart"}

ChartStageFailed ==
    \/ HasCall(Call("analyze", "raised"))
    \/ HasCall(Call("render", "raised"))
    \/ /\ ChartCalls # {}
       /\ \A i \in ChartCalls : calls[i].outcome = "raise"

C5_ChartFailureKeepsFlagFalse ==
    (args.enable_charts /\ ChartStageFailed /\ pc \in {"export", "idle"}) =>
        /\ pc = "export" => charts = EmptyDict
        /\ pc = "idle" => Called("export")
        /\ ~workflow_status["charts_generated"]

(***************************************************************************)
(* C6: export formats are attempted independently: when the serialization  *)
(* or the write of one requested format fails, every other requested       *)
(* format is still attempted and each format that succeeds is in the file  *)
(* map returned.                                                           *)
(***************************************************************************)
C6_FormatsIndependent ==
    (pc = "idle" /\ Called("export")) =>
        \A i \in 1..Len(args.output_formats) :
            LET f == args.output_formats[i]
            IN  f \in Serialized =>
                    /\ Called(f)
                    /\ HasCall(Call(f, "ok")) => DictHas(result.output_files, f)

(***************************************************************************)
(* C7: when every requested export format fails the run still returns      *)
(* status "success", with an empty file map and a warning in the log.      *)
(***************************************************************************)
FormatCalls == {i \in 1..Len(calls) : calls[i].stage \in Serialized}

AllRequestedFormatsFailed ==
    /\ args.output_formats # <<>>
    /\ Range(args.output_formats) \subseteq Serialized
    /\ FormatCalls # {}
    /\ \A i \in FormatCalls : calls[i].outcome # "ok"

Warnings == {"docx_missing", "docx_fail", "format_fail"}

C7_AllFormatsFailNonFatal ==
    (pc = "idle" /\ Called("export") /\ AllRequestedFormatsFailed) =>
        /\ result.status = "success"
        /\ result.output_files = EmptyDict
        /\ \E e \in Range(ReturnedLog) : e.msg \in Warnings

(***************************************************************************)
(* C8: when the serializer of a requested format is absent (format_docx    *)
(* raises ImportError) and no other serializer fails, the export of the    *)
(* other requested formats succeeds, the file map holds exactly the        *)
(* formats written, without the absent one, and a warning is logged for    *)
(* the format skipped.                                                     *)
(***************************************************************************)
DocxAbsentOnly ==
    /\ HasCall(Call("docx", "absent"))
    /\ ~HasCall(Call("docx", "ok"))
    /\ \A i \in FormatCalls : calls[i].outcome # "fail"

C9_DisabledStageFlagFalse ==
    Returned =>
        /\ ~args.enable_polish =>
              /\ ~Called("polish")
              /\ HasCall(Call("content", "ok")) =>
                     Entry("skip_polish", 0) \in Range(ReturnedLog)
              /\ ~ReturnedStatus["content_polished"]
        /\ ~args.enable_charts =>
              /\ ~Called("analyze")
              /\ HasCall(Call("content", "ok")) =>
                     Entry("skip_charts", 0) \in Range(ReturnedLog)
              /\ ~ReturnedStatus["charts_generated"]

(***************************************************************************)
(* C10: the workflow state is reset at the start of each run: when         *)
(* generate_report begins, on the first and on every later call, all five  *)
(* stage flags are false and the log holds no entry of an earlier run.     *)
(***************************************************************************)
C10_ResetAtRunStart ==
    [][ (pc = "idle" /\ pc' = "outline") =>
          /\ workflow_status' = FreshStatus
          /\ generation_log'[Len(generation_log')] = Entry("start", 0)
          /\ \A i \in 1..(Len(generation_log') - 1) : generation_log'[i].msg = "reset"
      ]_vars

(***************************************************************************)
(* C11: stage flags only change from false to true and the log only grows  *)
(* by appended entries, except at reset_workflow; reset_workflow sets all   *)
(* five flags to false and replaces the log by one that holds no entry of  *)
(* an earlier run: its only entry is the one recording the reset.          *)
(***************************************************************************)
IsPrefix(s, t) == Len(s) <= Len(t) /\ SubSeq(t, 1, Len(s)) = s

FlagsAndLogOnlyGrow ==
    /\ \A f \in Stages : workflow_status[f] => workflow_status'[f]
    /\ IsPrefix(generation_log, generation_log')

C11_MonotoneExceptReset ==
    [][ IF resets' # resets
        THEN /\ workflow_status' = FreshStatus
             /\ generation_log' = <<Entry("reset", 0)>>
        ELSE FlagsAndLogOnlyGrow
      ]_vars

C11_Witness ==
    /\ resets = 1
    /\ runs = 1
    /\ pc = "idle"
    /\ result.status = "success"
    /\ workflow_status = FreshStatus
    /\ generation_log = <<Entry("reset", 0)>>

\* C11 as stated: reset_workflow leaves the log empty
C11_ResetLeavesLogEmpty ==
    [][ IF resets' # resets
        THEN /\ workflow_status' = FreshStatus
             /\ generation_log' = <<>>
        ELSE FlagsAndLogOnlyGrow
      ]_vars

(***************************************************************************)
(* C12: whatever the generation service replies (any number of lines, with *)
(* or without marked lines, or a failure), the outline generate_outline    *)
(* returns has between 3 and 10 entries and holds an introduction-marked   *)
(* entry and a conclusion-marked entry.                                    *)
(***************************************************************************)
HasIntro(ol) == \E i \in 1..Len(ol) : ol[i] \in IntroMarked

HasConclusion(ol) == \E i \in 1..Len(ol) : ol[i] \in ConclusionMarked

C12_OutlineShape ==
    (agent_call.op = "generate_outline" /\ agent_call.pc = "done") =>
        /\ Len(agent_call.result) >= 3
        /\ Len(agent_call.result) <= 10
        /\ HasIntro(agent_call.result)
        /\ HasConclusion(agent_call.result)

(***************************************************************************)
(* C16: _validate_outline is idempotent on valid outlines: applied to an   *)
(* outline of at least 3 entries holding an introduction-marked and a      *)
(* conclusion-marked entry, and applied again to its result, it returns    *)
(* the titles of its argument both times.                                  *)
(***************************************************************************)
ValidOutline(ol) == Len(ol) >= 3 /\ HasIntro(ol) /\ HasConclusion(ol)

C16_ValidateIdempotent ==
    (agent_call.op = "_validate_outline" /\ ValidOutline(agent_call.outline)) =>
        /\ agent_call.pc \in {"once", "done"} => agent_call.once = agent_call.outline
        /\ agent_call.pc = "done" => agent_call.twice = agent_call.outline

C16_Witness ==
    /\ agent_call.op = "_validate_outline"
    /\ agent_call.pc = "done"
    /\ ValidOutline(agent_call.outline)
    /\ Len(agent_call.outline) > MaxOutline
    /\ agent_call.outline[1] \notin IntroMarked
    /\ agent_call.twice = agent_call.outline

(***************************************************************************)
(* C13: for any outline of length N, outlines repeating a title included,  *)
(* generate_all_sections returns exactly N entries whose keys are the      *)
(* outline entries in outline order.                                       *)
(***************************************************************************)
C13_OneEntryPerPosition ==
    (agent_call.op = "generate_all_sections" /\ agent_call.pc = "done") =>
        /\ Len(agent_call.sections_content) = Len(agent_call.outline)
        /\ DictKeys(agent_call.sections_content) = agent_call.outline

(***************************************************************************)
(* C18: the context of the content stage is causal: the prompt built for   *)
(* outline position p holds summaries only of texts produced at positions  *)
(* before p, one for every distinct title among those positions, and none  *)
(* of the text of position p or of a later position.                       *)
(***************************************************************************)
TextAt(q) ==
    generate_section_content(agent_call.outline[q], Topic, q \in agent_call.fail)

C18_CausalContext ==
    agent_call.op = "generate_all_sections" =>
        /\ Len(agent_call.prompts) = agent_call.i - 1
        /\ \A p \in 1..Len(agent_call.prompts) :
              LET pr == agent_call.prompts[p]
                  og == agent_call.seen[p]
              IN  /\ pr.current = p
                  /\ Len(og) = Len(pr.summaries)
                  /\ \A j \in 1..Len(pr.summaries) :
                        /\ og[j].k = pr.summaries[j].title
                        /\ og[j].v < p
                        /\ agent_call.outline[og[j].v] = pr.summaries[j].title
                        /\ pr.summaries[j].summary = Summary(TextAt(og[j].v))
                  /\ {pr.summaries[j].title : j \in 1..Len(pr.summaries)}
                        = {agent_call.outline[q] : q \in 1..(p - 1)}

C18_Witness ==
    /\ agent_call.op = "generate_all_sections"
    /\ agent_call.pc = "done"
    /\ agent_call.outline = <<"body", "intro", "body">>
    /\ agent_call.fail = {2}
    /\ Len(agent_call.prompts) = 3
    /\ Len(agent_call.prompts[3].summaries) = 2
    /\ agent_call.prompts[1].summaries = <<>>

(***************************************************************************)
(* C19: a polish failure is local to the failing section: in the sections  *)
(* the rest of the run uses, a section whose polish call failed keeps its  *)
(* unpolished text and every section whose polish call succeeded carries   *)
(* its polished text.                                                      *)
(***************************************************************************)
C19_PolishFailureLocal ==
    (agent_call.op = "_polish_content" /\ agent_call.pc = "done") =>
        /\ DictKeys(agent_call.returned) = DictKeys(agent_call.sections_content)
        /\ \A j \in 1..Len(agent_call.attempts) :
              /\ agent_call.attempts[j] = "raised" =>
                    agent_call.returned[j].v = agent_call.sections_content[j].v
              /\ agent_call.attempts[j] = "ok" =>
                    agent_call.returned[j].v =
                        _polish_with_context(agent_call.sections_content[j].v)

(***************************************************************************)
(* C20: chart rendering tolerates single failures: for any list of chart   *)
(* requests and any subset of them whose rendering raises or yields no     *)
(* artifact, generate_charts returns without raising, has attempted every  *)
(* request in list order, and returns the artifacts of the requests that   *)
(* rendered, and only those.                                               *)
(***************************************************************************)
Rendered == {i \in 1..Len(agent_call.attempts) : agent_call.attempts[i] = "path"}

EveryRequestAttempted ==
    /\ Len(agent_call.attempts) = Len(agent_call.chart_requirements)
    /\ \A i \in 1..Len(agent_call.attempts) :
          agent_call.attempts[i] =
              _generate_single_chart(agent_call.chart_requirements[i], i, agent_call.drawFails)

C20_RenderTolerant ==
    agent_call.op = "generate_charts" =>
        /\ agent_call.pc \in {"loop", "done"}
        /\ agent_call.pc = "done" =>
              /\ EveryRequestAttempted
              /\ {agent_call.generated_charts[j].v : j \in 1..Len(agent_call.generated_charts)}
                    = {ChartPath(agent_call.chart_requirements[i], i) : i \in Rendered}

\* the part of C20 that holds: no failure stops the loop, and every artifact
\* returned is the artifact of a request that rendered
RenderLoopCompletes ==
    (agent_call.op = "generate_charts" /\ agent_call.pc = "done") =>
        /\ EveryRequestAttempted
        /\ {agent_call.generated_charts[j].v : j \in 1..Len(agent_call.generated_charts)}
              \subseteq {ChartPath(agent_call.chart_requirements[i], i) : i \in Rendered}
        /\ \A i \in Rendered :
              DictHas(agent_call.generated_charts, agent_call.chart_requirements[i].title)

(***************************************************************************)
(* C15: analyze_content_for_charts never raises and returns a list.  When  *)
(* for every section the reply is not a JSON list (unparsable text, JSON   *)
(* of another shape, or a failure of the generation call), the list holds  *)
(* only requirements read from keywords of the reply texts, each with the  *)
(* title of its section, in section order, at most 3 per section.          *)
(***************************************************************************)
NotAList(reply) == reply.kind # "list"

RECURSIVE FromKeywords(_, _, _)
FromKeywords(sc, replies, i) ==
    IF i > Len(sc) THEN <<>>
    ELSE (IF replies[i].kind = "text"
          THEN LET hits == SelectSeq(chart_keywords,
                                     LAMBDA e : e.keyword \in replies[i].keywords)
               IN  [j \in 1..(IF Len(hits) < 3 THEN Len(hits) ELSE 3) |->
                      [title |-> hits[j].keyword, section_title |-> sc[i].k]]
          ELSE <<>>)
         \o FromKeywords(sc, replies, i + 1)

C15_AnalysisNeverRaises ==
    agent_call.op = "analyze_content_for_charts" =>
        /\ agent_call.pc \in {"loop", "done"}
        /\ DOMAIN agent_call.chart_requirements = 1..Len(agent_call.chart_requirements)
        /\ \A j \in 1..Len(agent_call.chart_requirements) :
              agent_call.chart_requirements[j].chart_type \in chart_types
        /\ (/\ agent_call.pc = "done"
            /\ \A i \in 1..Len(agent_call.replies) : NotAList(agent_call.replies[i])) =>
              [j \in 1..Len(agent_call.chart_requirements) |->
                  [title |-> agent_call.chart_requirements[j].title,
                   section_title |-> agent_call.chart_requirements[j].section_title]]
                = FromKeywords(agent_call.sections_content, agent_call.replies, 1)

C15_Witness ==
    /\ agent_call.op = "analyze_content_for_charts"
    /\ agent_call.pc = "done"
    /\ Len(agent_call.sections_content) = 2
    /\ agent_call.replies[1] = [kind |-> "scalar"]
    /\ agent_call.replies[2] =
           [kind |-> "text", keywords |-> {"kw_bar", "kw_bar2", "kw_pie", "kw_scatter"}]
    /\ Len(agent_call.chart_requirements) = 3

(***************************************************************************)
(* C14: in a run with polish disabled the section texts handed to the      *)
(* chart stage and to the export stage, and placed in the report returned, *)
(* are those the content stage returned, key for key and value for value,  *)
(* whatever the charts toggle and the export formats are.                  *)
(***************************************************************************)
C14_NoPolishKeepsContent ==
    (runs > 0 /\ ~args.enable_polish) =>
        /\ ~Called("polish")
        /\ pc \in {"polish", "charts", "export"} => sections_content = content_out
        /\ (pc = "idle" /\ result.status = "success") => result.sections = content_out

C14_Witness ==
    /\ Returned
    /\ ~args.enable_polish
    /\ args.enable_charts
    /\ args.output_formats = <<"markdown">>
    /\ result.status = "success"
    /\ result.charts # EmptyDict
    /\ result.sections = content_out
    /\ \E i \in 1..Len(content_out) : content_out[i].v.kind = "fallback"
    /\ \E i \in 1..Len(content_out) : content_out[i].v.kind = "generated"

(***************************************************************************)
(* C17: when the generation service fails on every call, a run with any    *)
(* toggles and markdown among the requested formats uses the fixed 8-entry *)
(* default outline, produces the fallback paragraph for each of its        *)
(* sections, and returns status "success".                                 *)
(***************************************************************************)
C17_OutageStillSucceeds ==
    /\ pc \in {"content", "polish", "charts", "export"} =>
          /\ outline = _get_default_outline(Topic)
          /\ Len(outline) = 8
    /\ (pc \in {"polish", "charts", "export"} \/ (pc = "idle" /\ runs > 0)) =>
          /\ DictKeys(content_out) = _get_default_outline(Topic)
          /\ \A i \in 1..Len(content_out) :
                content_out[i].v = _generate_fallback_content(content_out[i].k, Topic)
    /\ (pc = "idle" /\ runs > 0) =>
          /\ result.status = "success"
          /\ result.sections = content_out

\* the case of C17 that holds: the failure reaches the agents as an exception
RaisingOutageStillSucceeds ==
    generate_text(llm_failure, Prompt("content")).exc => C17_OutageStillSucceeds

(***************************************************************************)
(* C21: a report is immutable once returned: while the caller holds a      *)
(* report that generate_report returned, no later step of the coordinator  *)
(* changes the workflow flags or the log seen through that report.         *)
(***************************************************************************)
HoldsReport == result.status # "none" /\ result' = result

C21_ResultImmutable ==
    [][ HoldsReport =>
          /\ status_objs'[result.workflow_status] = status_objs[result.workflow_status]
          /\ log_objs'[result.generation_log] = log_objs[result.generation_log]
      ]_vars

\* the case of C21 that holds: reset_workflow binds new objects and leaves
\* those of the report alone
ResetKeepsReturnedReport ==
    [][ (HoldsReport /\ resets' # resets) =>
          /\ status_objs'[result.workflow_status] = status_objs[result.workflow_status]
          /\ log_objs'[result.generation_log] = log_objs[result.generation_log]
      ]_vars

(***************************************************************************)
(* C22: in every report with status "error" the workflow flags tell how    *)
(* far the run that returned it got: a stage flag is true exactly when     *)
(* that stage completed during that run, on a first run and on a later run *)
(* of the same coordinator alike.                                          *)
(***************************************************************************)
CompletionCall(flag) ==
    CASE flag = "outline_generated" -> Call("outline", "ok")
      [] flag = "content_generated" -> Call("content", "ok")
      [] flag = "content_polished" -> Call("polish", "ok")
      [] flag = "charts_generated" -> Call("render", "ok")
      [] flag = "report_formatted" -> Call("export", "ok")

FlagsTellProgress == \A f \in Stages : ReturnedStatus[f] <=> HasCall(CompletionCall(f))

C22_ErrorFlagsExact ==
    (Returned /\ result.status = "error") => FlagsTellProgress

\* the run in progress, or the one that just returned, is the only run begun
\* since the coordinator was constructed or reset
FreshRun == Cardinality({i \in 1..Len(generation_log) : generation_log[i].msg = "start"}) = 1

\* the case of C22 that holds: the run on a fresh coordinator
FreshErrorFlagsExact ==
    (Returned /\ result.status = "error" /\ FreshRun /\ result.generation_log = Len(log_objs)) =>
        FlagsTellProgress

(***************************************************************************)
(* C23: generate_text never raises to its caller: for each backend and     *)
(* each failure of the library, the transport, the authentication or the   *)
(* service, it returns a string.                                           *)
(***************************************************************************)
C23_GenerateTextNeverRaises ==
    agent_call.op = "generate_text" =>
        /\ agent_call.pc \in {"call", "done"}
        /\ ~agent_call.result.exc

\* the case of C23 that holds: every failure but a missing openai library
InstalledClientNeverRaises ==
    (agent_call.op = "generate_text" /\ agent_call.client.failure # "no_library") =>
        ~agent_call.result.exc

(***************************************************************************)
(* C24: for a request of each of the eight kinds the validation accepts    *)
(* the renderer returns an artifact path whenever drawing does not fail;   *)
(* for a request of any other kind it returns no artifact.                 *)
(***************************************************************************)
C24_EveryAcceptedKindRenders ==
    (agent_call.op = "_generate_single_chart" /\ agent_call.pc = "done") =>
        /\ (agent_call.requirement.chart_type \in chart_types /\ ~agent_call.draw_fails) =>
              agent_call.result = "path"
        /\ agent_call.requirement.chart_type \notin chart_types => agent_call.result = "none"

\* the part of C24 that holds: the five kinds the renderer has a branch for
\* yield a path, every kind outside the eight yields none
DrawableKindRenders ==
    (agent_call.op = "_generate_single_chart" /\ agent_call.pc = "done") =>
        /\ (agent_call.requirement.chart_type \in Drawable /\ ~agent_call.draw_fails) =>
              agent_call.result = "path"
        /\ agent_call.requirement.chart_type \notin chart_types => agent_call.result = "none"

(***************************************************************************)
(* C25: a failure while generating one section leaves no hole: for every   *)
(* outline and every set of positions whose generation call raises,        *)
(* generate_all_sections does not raise, goes on with the positions that   *)
(* follow, and returns for each failing position the fallback paragraph    *)
(* of its title and the topic and for each other position its generated    *)
(* text.                                                                   *)
(***************************************************************************)
EntryOf(p) ==
    LET j == CHOOSE j \in 1..Len(agent_call.sections_content) :
                 agent_call.sections_content[j].k = agent_call.outline[p]
    IN  agent_call.sections_content[j].v

EveryPositionHasItsText ==
    \A p \in 1..Len(agent_call.outline) :
        /\ DictHas(agent_call.sections_content, agent_call.outline[p])
        /\ EntryOf(p) = TextAt(p)

C25_FallbackPerSection ==
    agent_call.op = "generate_all_sections" =>
        /\ agent_call.pc \in {"loop", "done"}
        /\ agent_call.pc = "done" =>
              /\ agent_call.i = Len(agent_call.outline) + 1
              /\ EveryPositionHasItsText

DistinctTitles(ol) == \A p, q \in 1..Len(ol) : ol[p] = ol[q] => p = q

\* the case of C25 that holds: no title occurs twice in the outline
FallbackPerDistinctSection ==
    (agent_call.op = "generate_all_sections" /\ DistinctTitles(agent_call.outline)) =>
        /\ agent_call.pc \in {"loop", "done"}
        /\ agent_call.pc = "done" =>
              /\ agent_call.i = Len(agent_call.outline) + 1
              /\ EveryPositionHasItsText

(***************************************************************************)
(* C26: the run log receives an entry on every stage transition (start,    *)
(* completion or skip of each of the five stages) and on every caught      *)
(* failure, those caught inside a stage and replaced by a fallback         *)
(* included (per-section content fallback, single chart render failure).   *)
(***************************************************************************)
LogMsgs == {generation_log[i].msg : i \in 1..Len(generation_log)}

PastStage(stage) ==
    CASE stage = "outline" -> Called("outline")
      [] stage = "content" -> Called("content")
      [] stage = "polish" -> pc \in {"charts", "export"} \/ Called("export")
      [] stage = "charts" -> pc = "export" \/ Called("export")
      [] stage = "export" -> Called("export")

\* the entries the coordinator writes itself: stage starts, completions, skips,
\* and the failures its own handlers catch
TransitionsLogged ==
    /\ runs > 0 => "start" \in LogMsgs
    /\ PastStage("outline") => "step1" \in LogMsgs
    /\ HasCall(Call("outline", "ok")) => "outline_ok" \in LogMsgs
    /\ PastStage("content") => "step2" \in LogMsgs
    /\ HasCall(Call("content", "ok")) => "content_ok" \in LogMsgs
    /\ PastStage("polish") =>
          IF args.enable_polish THEN "step3" \in LogMsgs ELSE "skip_polish" \in LogMsgs
    /\ HasCall(Call("polish", "ok")) => "polish_ok" \in LogMsgs
    /\ PastStage("charts") =>
          IF args.enable_charts THEN "step4" \in LogMsgs ELSE "skip_charts" \in LogMsgs
    /\ HasCall(Call("render", "ok")) => "charts_ok" \in LogMsgs
    /\ PastStage("export") => "step5" \in LogMsgs
    /\ HasCall(Call("export", "ok")) => {"saved", "done"} \subseteq LogMsgs

CoordinatorFailuresLogged ==
    /\ HasCall(Call("outline", "raised")) => {"outline_fail", "failed"} \subseteq LogMsgs
    /\ HasCall(Call("content", "raised")) => {"content_fail", "failed"} \subseteq LogMsgs
    /\ HasCall(Call("polish", "raised")) => "polish_fail" \in LogMsgs
    /\ (HasCall(Call("analyze", "raised")) \/ HasCall(Call("render", "raised"))) =>
          "charts_fail" \in LogMsgs
    /\ HasCall(Call("docx", "absent")) => "docx_missing" \in LogMsgs
    /\ HasCall(Call("docx", "fail")) => "docx_fail" \in LogMsgs
    /\ HasCall(Call("export", "raised")) => {"format_fail", "failed"} \subseteq LogMsgs

FailureMsgs == {"outline_fail", "content_fail", "polish_fail", "charts_fail", "docx_missing",
                "docx_fail", "format_fail", "failed"}

\* a failure caught inside an agent and replaced by a fallback or skipped
SectionFellBack == \E i \in 1..Len(content_out) : content_out[i].v.kind = "fallback"

ChartDrawFailed == HasCall(Call("chart", "raise"))

C26_EveryTransitionAndFailureLogged ==
    /\ TransitionsLogged
    /\ CoordinatorFailuresLogged
    /\ (SectionFellBack \/ ChartDrawFailed) => LogMsgs \cap FailureMsgs # {}

\* the part of C26 that holds: the entries the coordinator writes itself
CoordinatorLogsItsOwnSteps == TransitionsLogged /\ CoordinatorFailuresLogged

(***************************************************************************)
(* C27: on a freshly constructed or freshly reset coordinator, in every    *)
(* state of one run the flags respect the stage dependencies:              *)
(* content_generated implies outline_generated; content_polished,          *)
(* charts_generated and report_formatted each imply content_generated; and *)
(* a report with status "success" has outline_generated, content_generated *)
(* and report_formatted all true.                                          *)
(***************************************************************************)
\* at most one run has begun since the coordinator was constructed or reset
AtMostOneRunSinceFresh ==
    Cardinality({i \in 1..Len(generation_log) : generation_log[i].msg = "start"}) <= 1

C27_FlagDependencies ==
    AtMostOneRunSinceFresh =>
        /\ workflow_status["content_generated"] => workflow_status["outline_generated"]
        /\ workflow_status["content_polished"] => workflow_status["content_generated"]
        /\ workflow_status["charts_generated"] => workflow_status["content_generated"]
        /\ workflow_status["report_formatted"] => workflow_status["content_generated"]
        /\ (Returned /\ result.status = "success") =>
              /\ ReturnedStatus["outline_generated"]
              /\ ReturnedStatus["content_generated"]
              /\ ReturnedStatus["report_formatted"]

C27_Witness ==
    /\ Returned
    /\ resets = 1
    /\ runs = 2
    /\ FreshRun
    /\ result.workflow_status = Len(status_objs)
    /\ result.status = "success"
    /\ workflow_status["content_polished"]
    /\ ~workflow_status["charts_generated"]
    /\ workflow_status["report_formatted"]
    /\ \E f \in Stages : ~status_objs[1][f]

(***************************************************************************)
(* C28: after a run with charts enabled on a fresh coordinator, when       *)
(* charts_generated is true the chart map of the report returned holds at  *)
(* least one rendered artifact.                                            *)
(***************************************************************************)
C28_ChartsFlagMeansArtifact ==
    (Returned /\ args.enable_charts /\ result.status = "success"
       /\ ReturnedStatus["charts_generated"]) =>
        Len(result.charts) >= 1

\* the direction that holds: a chart map with an artifact comes with the flag
ArtifactMeansChartsFlag ==
    (Returned /\ result.status = "success" /\ result.charts # EmptyDict) =>
        ReturnedStatus["charts_generated"]

(***************************************************************************)
(* C29: the chart map generate_charts returns has exactly one entry per    *)
(* request that rendered: for any list of requests, lists where two        *)
(* requests carry the same title included, the number of entries is the    *)
(* number of requests whose rendering returned a path, and every such path *)
(* is in the map.                                                          *)
(***************************************************************************)
C29_OneEntryPerRenderedRequest ==
    (agent_call.op = "generate_charts" /\ agent_call.pc = "done") =>
        /\ Len(agent_call.generated_charts) = Cardinality(Rendered)
        /\ \A i \in Rendered :
              \E j \in 1..Len(agent_call.generated_charts) :
                  agent_call.generated_charts[j].v = ChartPath(agent_call.chart_requirements[i], i)

\* the case of C29 that holds: the rendered requests carry different titles
OneEntryPerRenderedTitle ==
    (/\ agent_call.op = "generate_charts"
     /\ agent_call.pc = "done"
     /\ \A i, h \in Rendered :
           agent_call.chart_requirements[i].title = agent_call.chart_requirements[h].title
               => i = h) =>
        /\ Len(agent_call.generated_charts) = Cardinality(Rendered)
        /\ \A i \in Rendered :
              \E j \in 1..Len(agent_call.generated_charts) :
                  agent_call.generated_charts[j].v = ChartPath(agent_call.chart_requirements[i], i)

\* a reachable state: the analysis of two sections whose replies hold the same
\* keyword returns two requirements with one title
AnalysisRepeatsTitle ==
    /\ agent_call.op = "analyze_content_for_charts"
    /\ agent_call.pc = "done"
    /\ \E i, h \in 1..Len(agent_call.chart_requirements) :
          /\ i # h
          /\ agent_call.chart_requirements[i].title = agent_call.chart_requirements[h].title
          /\ agent_call.chart_requirements[i].section_title
                # agent_call.chart_requirements[h].section_title

(***************************************************************************)
(* C30: for any list of requested format identifiers the keys of the file  *)
(* map returned are among the requested identifiers that are markdown,     *)
(* json or docx; an identifier outside these three produces no file, no    *)
(* serializer call, no log entry and no error; and report_formatted is set *)
(* whenever the export step returns normally, also with an empty file map. *)
(***************************************************************************)
KnownRequested == SelectSeq(args.output_formats, LAMBDA f : f \in Serialized)

\* the serializer calls of the run, in order
SerializerCalls == SelectSeq(calls, LAMBDA c : c.stage \in Formats)

\* the log entries written after the start of step 5
ExportLog ==
    LET k == CHOOSE k \in 1..Len(ReturnedLog) : ReturnedLog[k].msg = "step5"
    IN  SubSeq(ReturnedLog, k + 1, Len(ReturnedLog))

\* one warning per docx call that did not write its file
DocxWarnings ==
    LET missed == SelectSeq(calls, LAMBDA c : c.stage = "docx" /\ c.outcome # "ok")
    IN  [j \in 1..Len(missed) |->
            Entry(IF missed[j].outcome = "absent" THEN "docx_missing" ELSE "docx_fail", 0)]

C30_UnknownFormatIgnored ==
    (pc = "idle" /\ Called("export")) =>
        /\ DictKeySet(result.output_files) \subseteq Range(args.output_formats) \cap Serialized
        /\ IsPrefix([j \in 1..Len(SerializerCalls) |-> SerializerCalls[j].stage], KnownRequested)
        /\ HasCall(Call("export", "raised")) <=>
              \E j \in 1..Len(SerializerCalls) :
                  /\ SerializerCalls[j].stage \in {"markdown", "json"}
                  /\ SerializerCalls[j].outcome = "fail"
        /\ HasCall(Call("export", "ok")) =>
              /\ result.status = "success"
              /\ ReturnedStatus["report_formatted"]
              /\ Len(SerializerCalls) = Len(KnownRequested)
              /\ ExportLog = DocxWarnings \o <<Entry("saved", Len(result.output_files)),
                                                Entry("done", 0)>>
        /\ HasCall(Call("export", "raised")) =>
              ExportLog = DocxWarnings \o <<Entry("format_fail", 0), Entry("failed", 0)>>

C30_Witness ==
    /\ Returned
    /\ args.output_formats = <<"pdf">>
    /\ HasCall(Call("export", "ok"))
    /\ result.status = "success"
    /\ result.output_files = EmptyDict
    /\ ReturnedStatus["report_formatted"]
    /\ ExportLog = <<Entry("saved", 0), Entry("done", 0)>>

====
